---- MODULE Spec2Model ----
(***************************************************************************)
(* A model of the guarded SQL gateway (SQLiteServer): the statement        *)
(* classifier of utils/sql.js, the request handlers, the execution adapter *)
(* and the SQLite store they drive.                                        *)
(*                                                                         *)
(* Statement text is a sequence of one-character strings, and the          *)
(* classifier's regular expressions are evaluated character by character.  *)
(***************************************************************************)
EXTENDS Integers, Sequences, FiniteSets, TLC

\* ------------------------------------------------------------------------
\* Bounds of the model
\* ------------------------------------------------------------------------

\* The largest patientid the store hands out: a write that would pass it
\* is not taken.
MaxSeq == 5

\* ------------------------------------------------------------------------
\* Characters, as JavaScript's regular expressions class them
\* ------------------------------------------------------------------------

UpperCase == <<"A","B","C","D","E","F","G","H","I","J","K","L","M",
               "N","O","P","Q","R","S","T","U","V","W","X","Y","Z">>

LowerCase == <<"a","b","c","d","e","f","g","h","i","j","k","l","m",
               "n","o","p","q","r","s","t","u","v","w","x","y","z">>

Digits == {"0","1","2","3","4","5","6","7","8","9"}

\* \w
WordChars == {UpperCase[i] : i \in 1..26} \cup {LowerCase[i] : i \in 1..26}
               \cup Digits \cup {"_"}

\* \s (the white space the inputs use)
SpaceChars == {" ", "\t", "\n"}

\* The /i flag: letters compare by their lower case.
ToLower(c) ==
  IF \E i \in 1..26 : UpperCase[i] = c
  THEN LowerCase[CHOOSE i \in 1..26 : UpperCase[i] = c]
  ELSE c

\* ------------------------------------------------------------------------
\* utils/sql.js: the statement classifier
\* ------------------------------------------------------------------------

K_update == <<"u","p","d","a","t","e">>
K_delete == <<"d","e","l","e","t","e">>
K_drop == <<"d","r","o","p">>
K_alter == <<"a","l","t","e","r">>
K_truncate == <<"t","r","u","n","c","a","t","e">>
K_grant == <<"g","r","a","n","t">>
K_revoke == <<"r","e","v","o","k","e">>
K_attach == <<"a","t","t","a","c","h">>
K_detach == <<"d","e","t","a","c","h">>
K_pragma == <<"p","r","a","g","m","a">>
K_select == <<"s","e","l","e","c","t">>
K_insert == <<"i","n","s","e","r","t">>
K_patient == <<"p","a","t","i","e","n","t">>

\* The alternation (update|delete|...|pragma) of isForbidden's pattern.
Denylist == {K_update, K_delete, K_drop, K_alter, K_truncate, K_grant,
             K_revoke, K_attach, K_detach, K_pragma}

\* Whether position i of s holds a word character (no position: no).
IsWordAt(s, i) == i >= 1 /\ i <= Len(s) /\ s[i] \in WordChars

\* \b between s[i] and s[i+1] (i = 0: the start, i = Len(s): the end).
WordBoundary(s, i) == IsWordAt(s, i) # IsWordAt(s, i + 1)

MatchesAtNoCase(s, i, kw) ==
  /\ i >= 1
  /\ i + Len(kw) - 1 <= Len(s)
  /\ \A k \in 1..Len(kw) : s[i + k - 1] = kw[k]

\* The literal kw, under /i, at position i of s.
MatchesAt(s, i, kw) ==
  /\ i >= 1
  /\ i + Len(kw) - 1 <= Len(s)
  /\ \A k \in 1..Len(kw) : ToLower(s[i + k - 1]) = kw[k]

\* /\bkw\b/i.test(s)
TestWord(s, kw) ==
  \E i \in 1..Len(s) :
    /\ WordBoundary(s, i - 1)
    /\ MatchesAt(s, i, kw)
    /\ WordBoundary(s, i + Len(kw) - 1)

\* The number of characters \s* takes at the start of s.
LeadingSpaces(s) ==
  CHOOSE n \in 0..Len(s) :
    /\ \A k \in 1..n : s[k] \in SpaceChars
    /\ n = Len(s) \/ s[n + 1] \notin SpaceChars

TestUnanchored(s, kw) ==
  \E i \in 1..Len(s) :
    /\ MatchesAt(s, i, kw)
    /\ WordBoundary(s, i + Len(kw) - 1)

\* /^\s*kw\b/i.test(s)
TestAnchored(s, kw) ==
  LET n == LeadingSpaces(s)
  IN  /\ MatchesAt(s, n + 1, kw)
      /\ WordBoundary(s, n + Len(kw))

isForbidden(sql) == \E kw \in Denylist : TestWord(sql, kw)

isSelect(sql) == TestAnchored(sql, K_select)

isInsert(sql) == TestAnchored(sql, K_insert)

touchesPatient(sql) == TestWord(sql, K_patient)

\* s is the empty string, white space not trimmed
IsEmptyUntrimmed(s) == s = <<>>

\* String.prototype.trim() leaves nothing.
TrimIsEmpty(s) == \A k \in 1..Len(s) : s[k] \in SpaceChars

\* ------------------------------------------------------------------------
\* Statement texts the clients send
\* ------------------------------------------------------------------------

\* "select * from patient"
T_SelectAll == <<"s","e","l","e","c","t"," ","*"," ","f","r","o","m"," ","p","a","t","i","e","n","t">>
\* "  Select * From PATIENT"
T_SelectAllCase == <<" "," ","S","e","l","e","c","t"," ","*"," ","F","r","o","m"," ","P","A","T","I","E","N","T">>
\* "select * from other_table"
T_SelectOther == <<"s","e","l","e","c","t"," ","*"," ","f","r","o","m"," ","o","t","h","e","r","_","t","a","b","l","e">>
\* "select drop_rate from patient"
T_SelectNoCol == <<"s","e","l","e","c","t"," ","d","r","o","p","_","r","a","t","e"," ","f","r","o","m"," ","p","a","t","i","e","n","t">>
\* "selects * from patient"
T_Selects == <<"s","e","l","e","c","t","s"," ","*"," ","f","r","o","m"," ","p","a","t","i","e","n","t">>
\* "drop table patient"
T_DropTable == <<"d","r","o","p"," ","t","a","b","l","e"," ","p","a","t","i","e","n","t">>
\* "select 1 from patient; DROP table patient"
T_SelectThenDrop == <<"s","e","l","e","c","t"," ","1"," ","f","r","o","m"," ","p","a","t","i","e","n","t",";"," ","D","R","O","P"," ","t","a","b","l","e"," ","p","a","t","i","e","n","t">>
\* "Update patient set name='x'"
T_UpdatePatient == <<"U","p","d","a","t","e"," ","p","a","t","i","e","n","t"," ","s","e","t"," ","n","a","m","e","=","'","x","'">>
\* "insert into patient (name, dateOfBirth) values ('Ada','1815-12-10')"
T_InsertAda == <<"i","n","s","e","r","t"," ","i","n","t","o"," ","p","a","t","i","e","n","t"," ","(","n","a","m","e",","," ","d","a","t","e","O","f","B","i","r","t","h",")"," ","v","a","l","u","e","s"," ","(","'","A","d","a","'",",","'","1","8","1","5","-","1","2","-","1","0","'",")">>
\* "INSERT INTO patient (name) VALUES ('Bob')"
T_InsertBob == <<"I","N","S","E","R","T"," ","I","N","T","O"," ","p","a","t","i","e","n","t"," ","(","n","a","m","e",")"," ","V","A","L","U","E","S"," ","(","'","B","o","b","'",")">>
\* "insert or replace into patient (patientid, name) values (1,'Eve')"
T_InsertOrReplace == <<"i","n","s","e","r","t"," ","o","r"," ","r","e","p","l","a","c","e"," ","i","n","t","o"," ","p","a","t","i","e","n","t"," ","(","p","a","t","i","e","n","t","i","d",","," ","n","a","m","e",")"," ","v","a","l","u","e","s"," ","(","1",",","'","E","v","e","'",")">>
\* "insert into patient (name) select name from patient where 0"
T_InsertNone == <<"i","n","s","e","r","t"," ","i","n","t","o"," ","p","a","t","i","e","n","t"," ","(","n","a","m","e",")"," ","s","e","l","e","c","t"," ","n","a","m","e"," ","f","r","o","m"," ","p","a","t","i","e","n","t"," ","w","h","e","r","e"," ","0">>
\* "insert into patient (name) values (NULL)"
T_InsertNull == <<"i","n","s","e","r","t"," ","i","n","t","o"," ","p","a","t","i","e","n","t"," ","(","n","a","m","e",")"," ","v","a","l","u","e","s"," ","(","N","U","L","L",")">>
\* "insert into other (name) values ('x')"
T_InsertOther == <<"i","n","s","e","r","t"," ","i","n","t","o"," ","o","t","h","e","r"," ","(","n","a","m","e",")"," ","v","a","l","u","e","s"," ","(","'","x","'",")">>
\* "insert into patient (name) values ('pragma')"
T_InsertPragma == <<"i","n","s","e","r","t"," ","i","n","t","o"," ","p","a","t","i","e","n","t"," ","(","n","a","m","e",")"," ","v","a","l","u","e","s"," ","(","'","p","r","a","g","m","a","'",")">>
\* " "
T_Blank == <<" ">>
\* "/api/v1/sql/"
T_Prefix == <<"/","a","p","i","/","v","1","/","s","q","l","/">>
\* ""
T_Empty == <<>>

\* The statement texts of the requests, on either channel.
Texts == <<T_SelectAll, T_SelectAllCase, T_SelectOther, T_SelectNoCol,
           T_Selects, T_DropTable, T_SelectThenDrop, T_UpdatePatient,
           T_InsertAda, T_InsertBob, T_InsertOrReplace, T_InsertNone,
           T_InsertNull, T_InsertOther, T_InsertPragma, T_Blank, T_Empty>>

\* ------------------------------------------------------------------------
\* The read channel's path: split, filter, join, decodeURIComponent
\* ------------------------------------------------------------------------

\* The escapes of the inputs: <<first hex digit, second hex digit, character>>.
Escapes == { <<"2","0"," ">>, <<"0","9","\t">>, <<"2","C",",">>,
             <<"3","B",";">>, <<"3","D","=">>, <<"2","F","/">>,
             <<"2","5","%">> }

\* The function f of 1..n as the tuple of its values.
Tuple(f) == SubSeq(f, 1, Len(f))

\* Whether an escape stands for character c, and which.
IsEscaped(c) == \E e \in Escapes : e[3] = c

EscapeOf(c) == CHOOSE e \in Escapes : e[3] = c

\* encodeURIComponent, as the client applies it to the statement text: the
\* character at i goes to the output after the off(i) characters its
\* predecessors take, as itself or as its escape.
encodeURIComponent(s) ==
  LET off(i) == (i - 1) + 2 * Cardinality({k \in 1..(i - 1) : IsEscaped(s[k])})
      n == off(Len(s) + 1)
  IN  Tuple([j \in 1..n |->
         LET i == CHOOSE i \in 1..Len(s) : off(i) < j /\ j <= off(i + 1)
         IN  IF IsEscaped(s[i])
             THEN <<"%", EscapeOf(s[i])[1], EscapeOf(s[i])[2]>>[j - off(i)]
             ELSE s[i]])

\* Whether two hex digits of a character follow the "%" at position i.
EscapeAt(s, i) ==
  /\ i + 2 <= Len(s)
  /\ \E e \in Escapes : e[1] = s[i + 1] /\ e[2] = s[i + 2]

\* decodeURIComponent: a URIError for a "%" that no escape follows; else
\* every escape gives its character (no hex digit is a "%", so every "%" of
\* a well-formed text starts an escape, and the two characters after it are
\* consumed).
decodeURIComponent(s) ==
  IF \E i \in 1..Len(s) : s[i] = "%" /\ ~EscapeAt(s, i)
  THEN [ok |-> FALSE, text |-> <<>>]
  ELSE LET kept(i) == /\ ~(i > 1 /\ s[i - 1] = "%")
                      /\ ~(i > 2 /\ s[i - 2] = "%")
           rank(i) == Cardinality({k \in 1..i : kept(k)})
           n == rank(Len(s))
       IN  [ok |-> TRUE,
            text |-> Tuple([j \in 1..n |->
                        LET i == CHOOSE i \in 1..Len(s) :
                                   kept(i) /\ rank(i) = j
                        IN  IF s[i] = "%"
                            THEN (CHOOSE e \in Escapes :
                                    e[1] = s[i + 1] /\ e[2] = s[i + 2])[3]
                            ELSE s[i]])]

\* pathname.split("/"): the segment from position i to the next "/", then
\* the segments after it.
RECURSIVE splitFrom(_, _)
splitFrom(s, i) ==
  LET stop == CHOOSE j \in i..(Len(s) + 1) :
                /\ j = Len(s) + 1 \/ s[j] = "/"
                /\ \A k \in i..(j - 1) : s[k] # "/"
  IN  IF stop > Len(s) THEN <<SubSeq(s, i, Len(s))>>
      ELSE <<SubSeq(s, i, stop - 1)>> \o splitFrom(s, stop + 1)

split(s) == splitFrom(s, 1)

\* .filter(Boolean): the empty segments go.
NonEmpty(p) == p # <<>>

filterBoolean(parts) == SelectSeq(parts, NonEmpty)

\* .join("/")
RECURSIVE join(_)
join(parts) ==
  IF parts = <<>> THEN <<>>
  ELSE IF Len(parts) = 1 THEN parts[1]
  ELSE parts[1] \o <<"/">> \o join(Tail(parts))

\* "/api/v1/sql/%zz": a percent sign no hex digits follow.
P_BadEscape == T_Prefix \o <<"%","z","z">>

\* The pathnames of the GET requests the router hands to handleGetSql.
GetPaths ==
  Tuple([i \in 1..Len(Texts) |-> T_Prefix \o encodeURIComponent(Texts[i])])
    \o <<P_BadEscape>>

\* ------------------------------------------------------------------------
\* The write channel's body, as JSON.parse leaves it
\* ------------------------------------------------------------------------

\* The bodies of the POST requests. kind: what the raw body is; query: the
\* payload's query field ("absent", "null", "zero", "number" or "string")
\* and, for a string, its text.
Body(kind, query, text) == [kind |-> kind, query |-> query, text |-> text]

PostBodies ==
  Tuple([i \in 1..Len(Texts) |-> Body("object", "string", Texts[i])])
    \o << Body("toolarge", "absent", <<>>),
          Body("invalid", "absent", <<>>),
          Body("empty", "absent", <<>>),
          Body("object", "absent", <<>>),
          Body("object", "null", <<>>),
          Body("object", "zero", <<>>),
          Body("object", "number", <<"7">>),
          Body("null", "absent", <<>>),
          Body("number", "absent", <<>>),
          Body("array", "absent", <<>>) >>

\* ------------------------------------------------------------------------
\* The store: one SQLite connection on lab5.sqlite
\* ------------------------------------------------------------------------

\* null, and a value that is there
Null == <<>>

Some(v) == <<v>>

\* tables: how many tables named patient the schema holds; rows: the
\* records; seq: the largest patientid AUTOINCREMENT has handed out;
\* lastRowid, changes: sqlite3_last_insert_rowid and sqlite3_changes of the
\* connection.
Store(tables, rows, seq) ==
  [tables |-> tables, rows |-> rows, seq |-> seq, lastRowid |-> 0,
   changes |-> 0]

Record(id, name, dob) == [patientid |-> id, name |-> name, dateOfBirth |-> dob]

\* What the store returns for a statement.
Done(s, err, rows, keys) ==
  [store |-> s, err |-> err, rows |-> rows, newKeys |-> keys]

\* CREATE TABLE patient (...), without IF NOT EXISTS
CreateTable(s) ==
  IF s.tables = 0
  THEN Done([s EXCEPT !.tables = 1], "", <<>>, {})
  ELSE Done(s, "SQLITE_ERROR: table patient already exists", <<>>, {})

\* CREATE TABLE IF NOT EXISTS patient (...)
CreateTableIfNotExists(s) ==
  IF s.tables = 0
  THEN Done([s EXCEPT !.tables = 1], "", <<>>, {})
  ELSE Done(s, "", <<>>, {})

\* The records in patientid order.
RECURSIVE SortedRows(_)
SortedRows(rows) ==
  IF rows = {} THEN <<>>
  ELSE LET r == CHOOSE r \in rows : \A q \in rows : r.patientid <= q.patientid
       IN  <<r>> \o SortedRows(rows \ {r})

\* INSERT INTO patient (name, dateOfBirth) VALUES vals[1], vals[2], ...
InsertValues(s, vals) ==
  LET n == Len(vals)
      new == {Record(s.seq + k, vals[k][1], vals[k][2]) : k \in 1..n}
  IN  Done([s EXCEPT !.rows = @ \cup new,
                     !.seq = @ + n,
                     !.lastRowid = IF n > 0 THEN s.seq + n ELSE @,
                     !.changes = n],
           "", <<>>, {r.patientid : r \in new})

\* INSERT OR REPLACE INTO patient (patientid, name) VALUES (id, name): the
\* record that holds the key goes, the new one takes its place.
InsertOrReplace(s, id, name) ==
  Done([s EXCEPT !.rows = {r \in @ : r.patientid # id}
                            \cup {Record(id, name, "NULL")},
                 !.seq = IF id > @ THEN id ELSE @,
                 !.lastRowid = id,
                 !.changes = 1],
       "", <<>>, {id})

\* seed(): the fixed sample records, the statement built for them and its
\* parameters.
SeedRows == << <<"Sara Brown", "1901-01-01 00:00:00">>,
               <<"John Smith", "1941-01-01 00:00:00">>,
               <<"Jack Ma", "1961-01-30 00:00:00">>,
               <<"Elon Musk", "1999-01-01 00:00:00">> >>

\* rows.flat()
RECURSIVE flat(_)
flat(rows) == IF rows = <<>> THEN <<>> ELSE Head(rows) \o flat(Tail(rows))

\* "INSERT INTO patient (name, dateOfBirth) VALUES "
T_SeedHead == <<"I","N","S","E","R","T"," ","I","N","T","O"," ","p","a","t","i","e","n","t"," ","(","n","a","m","e",","," ","d","a","t","e","O","f","B","i","r","t","h",")"," ","V","A","L","U","E","S"," ">>

\* "(?, ?)"
T_Placeholder == <<"(","?",","," ","?",")">>

\* rows.map(() => "(?, ?)").join(", ")
RECURSIVE placeholders(_)
placeholders(n) ==
  IF n = 0 THEN <<>>
  ELSE IF n = 1 THEN T_Placeholder
  ELSE T_Placeholder \o <<",", " ">> \o placeholders(n - 1)

SeedSql == T_SeedHead \o placeholders(Len(SeedRows)) \o <<";">>

\* The value tuples a statement of n placeholders pairs gets from params.
Bind(params, n) == [k \in 1..n |-> <<params[2 * k - 1], params[2 * k]>>]

\* What SQLite makes of each statement text the gateway runs.
Meaning(kind, vals, id, name, msg) ==
  [kind |-> kind, vals |-> vals, id |-> id, name |-> name, msg |-> msg]

MeaningOf(sql, params) ==
  CASE sql = T_SelectAll -> Meaning("select", <<>>, 0, "", "")
    [] sql = T_SelectAllCase -> Meaning("select", <<>>, 0, "", "")
    [] sql = T_SelectNoCol ->
         Meaning("error", <<>>, 0, "",
                 "SQLITE_ERROR: no such column: drop_rate")
    [] sql = T_InsertAda ->
         Meaning("insert", << <<"Ada", "1815-12-10">> >>, 0, "", "")
    [] sql = T_InsertBob ->
         Meaning("insert", << <<"Bob", "NULL">> >>, 0, "", "")
    [] sql = T_InsertNone -> Meaning("insert", <<>>, 0, "", "")
    [] sql = T_InsertOrReplace -> Meaning("replace", <<>>, 1, "Eve", "")
    [] sql = T_InsertNull ->
         Meaning("error", <<>>, 0, "",
                 "SQLITE_CONSTRAINT: NOT NULL constraint failed: patient.name")
    [] sql = SeedSql /\ Len(params) = 2 * Len(SeedRows) ->
         Meaning("insert", Bind(params, Len(SeedRows)), 0, "", "")
    [] OTHER -> Meaning("error", <<>>, 0, "", "SQLITE_ERROR: syntax error")

\* One statement on the connection.
Execute(s, sql, params) ==
  LET m == MeaningOf(sql, params)
  IN  IF m.kind = "error" THEN Done(s, m.msg, <<>>, {})
      ELSE IF s.tables = 0
      THEN Done(s, "SQLITE_ERROR: no such table: patient", <<>>, {})
      ELSE IF m.kind = "select" THEN Done(s, "", SortedRows(s.rows), {})
      ELSE IF m.kind = "insert" THEN InsertValues(s, m.vals)
      ELSE InsertOrReplace(s, m.id, m.name)

\* ------------------------------------------------------------------------
\* SQLiteServer: the execution adapter
\* ------------------------------------------------------------------------

\* What a promise of the adapter settles to: the store it leaves, whether it
\* rejected and with what message, its value (rows; affectedRows and
\* insertId; inserted), the statements it handed to the store, and what the
\* store did (the keys it assigned).
Settled(s, err, rows, affectedRows, insertId, inserted, stmts, keys) ==
  [store |-> s, rejected |-> err # "", message |-> err, rows |-> rows,
   affectedRows |-> affectedRows, insertId |-> insertId,
   inserted |-> inserted, handed |-> stmts, newKeys |-> keys]

\* A statement as the store receives it.
Handed(op, sql, from) == [op |-> op, sql |-> sql, from |-> from]

ensureTableExists(s) == CreateTableIfNotExists(s)

runSelect(s, sql) ==
  LET e == ensureTableExists(s)
  IN  IF e.err # ""
      THEN Settled(e.store, e.err, <<>>, Null, Null, Null, <<>>, {})
      ELSE LET r == Execute(e.store, sql, <<>>)
           IN  Settled(r.store, r.err, r.rows, Null, Null, Null,
                       <<Handed("all", sql, "GET")>>, {})

\* this.lastID || null
insertIdOf(r) ==
  IF r.store.lastRowid = 0 THEN Null ELSE Some(r.store.lastRowid)

runInsert(s, sql) ==
  LET e == ensureTableExists(s)
  IN  IF e.err # ""
      THEN Settled(e.store, e.err, <<>>, Null, Null, Null, <<>>, {})
      ELSE LET r == Execute(e.store, sql, <<>>)
           IN  IF r.err # ""
               THEN Settled(r.store, r.err, <<>>, Null, Null, Null,
                            <<Handed("run", sql, "POST")>>, {})
               ELSE Settled(r.store, "", <<>>, Some(r.store.changes),
                            insertIdOf(r), Null,
                            <<Handed("run", sql, "POST")>>, r.newKeys)

\* seed() reporting this.lastID for the number of records inserted
seedReportsLastID(s) ==
  LET r == Execute(s, SeedSql, flat(SeedRows))
  IN  IF r.err # ""
      THEN Settled(r.store, r.err, <<>>, Null, Null, Null,
                   <<Handed("run", SeedSql, "SEED")>>, {})
      ELSE Settled(r.store, "", <<>>, Null, Null, Some(r.store.lastRowid),
                   <<Handed("run", SeedSql, "SEED")>>, r.newKeys)

seed(s) ==
  LET r == Execute(s, SeedSql, flat(SeedRows))
  IN  IF r.err # ""
      THEN Settled(r.store, r.err, <<>>, Null, Null, Null,
                   <<Handed("run", SeedSql, "SEED")>>, {})
      ELSE Settled(r.store, "", <<>>, Null, Null,
                   Some(IF r.store.changes # 0 THEN r.store.changes
                        ELSE Len(SeedRows)),
                   <<Handed("run", SeedSql, "SEED")>>, r.newKeys)

\* ------------------------------------------------------------------------
\* SQLiteServer: the gateway handlers
\* ------------------------------------------------------------------------

\* sendJSON(res, status, obj): status 0 stands for no response sent.
Response(status, error, ok, rows, affectedRows, insertId, inserted) ==
  [status |-> status, error |-> error, ok |-> ok, rows |-> rows,
   affectedRows |-> affectedRows, insertId |-> insertId,
   inserted |-> inserted]

ErrorResponse(status, msg) ==
  Response(status, msg, FALSE, <<>>, Null, Null, Null)

NoResponse == ErrorResponse(0, "")

\* Where a handler stands once the request is validated: answered (sent,
\* with res), thrown out of the handler, or about to run the statement.
Verdict(sent, thrown, answer) ==
  [sent |-> sent, thrown |-> thrown, res |-> answer]

Answered(status, msg) == Verdict(TRUE, FALSE, ErrorResponse(status, msg))

Thrown == Verdict(FALSE, TRUE, NoResponse)

Approved == Verdict(FALSE, FALSE, NoResponse)

\* handleGetSql's statement text: missing (fewer than four segments), badly
\* encoded (not ok), or the decoded text.
sqlOfPath(pathname) ==
  LET parts == filterBoolean(split(pathname))
  IN  IF Len(parts) < 4 THEN [missing |-> TRUE, ok |-> FALSE, text |-> <<>>]
      ELSE LET d == decodeURIComponent(join(SubSeq(parts, 4, Len(parts))))
           IN  [missing |-> FALSE, ok |-> d.ok, text |-> d.text]

\* handleGetSql with the select-shape check ahead of the denylist check
getSqlShapeFirst(pathname) ==
  LET q == sqlOfPath(pathname)
  IN  IF q.missing THEN Answered(400, "Missing SQL in path.")
      ELSE IF ~q.ok THEN Answered(400, "Badly encoded SQL.")
      ELSE IF ~isSelect(q.text) THEN Answered(400, "GET only allows SELECT.")
      ELSE IF isForbidden(q.text) THEN Answered(403, "Forbidden statement.")
      ELSE IF ~touchesPatient(q.text)
      THEN Answered(400, "Query must reference 'patient'.")
      ELSE Approved

\* handleGetSql up to the call of runSelect
getSql(pathname) ==
  LET q == sqlOfPath(pathname)
  IN  IF q.missing THEN Answered(400, "Missing SQL in path.")
      ELSE IF ~q.ok THEN Answered(400, "Badly encoded SQL.")
      ELSE IF isForbidden(q.text) THEN Answered(403, "Forbidden statement.")
      ELSE IF ~isSelect(q.text) THEN Answered(400, "GET only allows SELECT.")
      ELSE IF ~touchesPatient(q.text)
      THEN Answered(400, "Query must reference 'patient'.")
      ELSE Approved

\* The bodies JSON.parse makes a payload of that is not null.
ParsedKinds == {"empty", "object", "number", "array"}

\* String(payload.query || "") for a payload that is not null
queryString(body) ==
  IF body.kind = "object" /\ body.query \in {"string", "number"}
  THEN body.text
  ELSE <<>>

\* handlePostSql up to the call of runInsert
postSql(body) ==
  IF body.kind = "toolarge" THEN Answered(413, "BODY_TOO_LARGE")
  ELSE IF body.kind = "invalid" THEN Answered(400, "Invalid JSON body.")
  ELSE IF body.kind = "null" THEN Thrown
  ELSE IF TrimIsEmpty(queryString(body))
  THEN Answered(400, "Missing 'query' field.")
  ELSE IF isForbidden(queryString(body))
  THEN Answered(403, "Forbidden statement.")
  ELSE IF ~isInsert(queryString(body))
  THEN Answered(400, "POST only allows INSERT.")
  ELSE IF ~touchesPatient(queryString(body))
  THEN Answered(400, "Query must reference 'patient'.")
  ELSE Approved

\* The statement texts and the verdicts of the requests, one per pathname
\* and per body.
GetTexts == Tuple([i \in 1..Len(GetPaths) |-> sqlOfPath(GetPaths[i])])

GetVerdicts == Tuple([i \in 1..Len(GetPaths) |-> getSql(GetPaths[i])])

PostTexts == Tuple([i \in 1..Len(PostBodies) |-> queryString(PostBodies[i])])

PostVerdicts == Tuple([i \in 1..Len(PostBodies) |-> postSql(PostBodies[i])])

\* ------------------------------------------------------------------------
\* The server as a state machine
\* ------------------------------------------------------------------------

VARIABLES
  phase,       \* "booting", "listening" or "exited"
  bootResult,  \* bootstrap()'s promise: "pending", "resolved" or "rejected"
  store,       \* the database
  req,         \* the last request: its channel, whether its statement text
               \* was got ("text", "missing", "malformed", "none"), the text
               \* and the kind of its body
  res,         \* the response to it
  handed,      \* the statements its handling handed to the store
  newKeys,     \* the keys the store assigned while handling it
  before       \* the store as the last request found it

vars == <<phase, bootResult, store, req, res, handed, newKeys, before>>

Request(channel, got, sql, body) ==
  [channel |-> channel, got |-> got, sql |-> sql, body |-> body]

\* The database file as the process finds it: not there, there with an empty
\* patient table, or there with a record of an earlier run.
InitStores ==
  { Store(0, {}, 0),
    Store(1, {}, 0),
    Store(1, {Record(1, "Old", "NULL")}, 1) }

Init ==
  /\ phase = "booting"
  /\ bootResult = "pending"
  /\ store \in InitStores
  /\ req = Request("NONE", "none", <<>>, "")
  /\ res = NoResponse
  /\ handed = <<>>
  /\ newKeys = {}
  /\ before = store

\* bootstrap(): open the database and run CREATE TABLE IF NOT EXISTS; the
\* promise rejects when the store cannot be opened or the statement fails.
bootstrap ==
  /\ phase = "booting"
  /\ bootResult = "pending"
  /\ \E opened \in BOOLEAN :
       IF opened
       THEN LET c == CreateTableIfNotExists(store)
            IN  /\ store' = c.store
                /\ bootResult' = IF c.err = "" THEN "resolved" ELSE "rejected"
       ELSE /\ store' = store
            /\ bootResult' = "rejected"
  /\ UNCHANGED <<phase, req, res, handed, newKeys, before>>

\* init() calling start() without awaiting bootstrap()
startUnawaited == bootResult \in {"pending", "resolved", "rejected"}

\* init(): start() follows await this.bootstrap()
startAllowed == bootResult = "resolved"

\* start(): the server listens
start ==
  /\ phase = "booting"
  /\ startAllowed
  /\ phase' = "listening"
  /\ UNCHANGED <<bootResult, store, req, res, handed, newKeys, before>>

\* init()'s catch: process.exit(1)
exit ==
  /\ phase = "booting"
  /\ bootResult = "rejected"
  /\ phase' = "exited"
  /\ UNCHANGED <<bootResult, store, req, res, handed, newKeys, before>>

\* GET /api/v1/sql/<text>
handleGetSql ==
  /\ phase = "listening"
  /\ \E i \in 1..Len(GetPaths) :
       LET v == GetVerdicts[i]
           q == GetTexts[i]
           r == runSelect(store, q.text)
       IN  /\ req' = Request("GET",
                              IF q.missing THEN "missing"
                              ELSE IF q.ok THEN "text" ELSE "malformed",
                              q.text, "")
           /\ IF v.sent
              THEN /\ res' = v.res
                   /\ handed' = <<>>
                   /\ store' = store
              ELSE /\ res' = IF r.rejected
                             THEN ErrorResponse(400, r.message)
                             ELSE Response(200, "", FALSE, r.rows, Null, Null,
                                           Null)
                   /\ handed' = r.handed
                   /\ store' = r.store
  /\ newKeys' = {}
  /\ before' = store
  /\ UNCHANGED <<phase, bootResult>>

\* POST /api/v1/sql. A payload of null throws out of the handler: nothing is
\* sent, and the unhandled rejection ends the process or not, by the runtime.
handlePostSql ==
  /\ phase = "listening"
  /\ \E i \in 1..Len(PostBodies) :
       LET v == PostVerdicts[i]
           sql == PostTexts[i]
           r == runInsert(store, sql)
       IN  /\ req' = Request("POST",
                              IF PostBodies[i].kind \in ParsedKinds
                              THEN "text" ELSE "none",
                              sql, PostBodies[i].kind)
           /\ IF v.thrown
              THEN /\ res' = NoResponse
                   /\ handed' = <<>>
                   /\ newKeys' = {}
                   /\ store' = store
                   /\ phase' \in {"listening", "exited"}
              ELSE IF v.sent
              THEN /\ res' = v.res
                   /\ handed' = <<>>
                   /\ newKeys' = {}
                   /\ store' = store
                   /\ phase' = phase
              ELSE /\ r.store.seq <= MaxSeq
                   /\ res' = IF r.rejected
                             THEN ErrorResponse(400, r.message)
                             ELSE Response(200, "", TRUE, <<>>,
                                           r.affectedRows, r.insertId, Null)
                   /\ handed' = r.handed
                   /\ newKeys' = r.newKeys
                   /\ store' = r.store
                   /\ phase' = phase
  /\ before' = store
  /\ UNCHANGED bootResult

\* POST /api/v1/seed
handleSeed ==
  /\ phase = "listening"
  /\ LET r == seed(store)
     IN  /\ r.store.seq <= MaxSeq
         /\ req' = Request("SEED", "none", <<>>, "")
         /\ res' = IF r.rejected
                   THEN ErrorResponse(400, r.message)
                   ELSE Response(200, "", TRUE, <<>>, Null, Null, r.inserted)
         /\ handed' = r.handed
         /\ newKeys' = r.newKeys
         /\ store' = r.store
  /\ before' = store
  /\ UNCHANGED <<phase, bootResult>>

\* handleRequest's other routes: OPTIONS, GET /, and everything else
handleRequest ==
  /\ phase = "listening"
  /\ \E route \in {"OPTIONS", "ROOT", "OTHER"} :
       /\ req' = Request(route, "none", <<>>, "")
       /\ res' = CASE route = "OPTIONS" -> ErrorResponse(204, "")
                   [] route = "ROOT" -> ErrorResponse(200, "")
                   [] OTHER -> ErrorResponse(404, "Not found")
  /\ handed' = <<>>
  /\ newKeys' = {}
  /\ store' = store
  /\ before' = store
  /\ UNCHANGED <<phase, bootResult>>

Next ==
  \/ bootstrap
  \/ start
  \/ exit
  \/ handleGetSql
  \/ handlePostSql
  \/ handleSeed
  \/ handleRequest

Spec == Init /\ [][Next]_vars

\* ------------------------------------------------------------------------
\* What the properties speak of
\* ------------------------------------------------------------------------

\* The text in lower case.
LowerText(s) == Tuple([k \in 1..Len(s) |-> ToLower(s[k])])

\* s[i..j] is a word of s: a run of word characters nothing extends.
IsWordOf(s, i, j) ==
  /\ 1 <= i /\ i <= j /\ j <= Len(s)
  /\ \A k \in i..j : s[k] \in WordChars
  /\ i = 1 \/ s[i - 1] \notin WordChars
  /\ j = Len(s) \/ s[j + 1] \notin WordChars

\* s holds w as a whole word, in any letter case.
HasWord(s, w) ==
  \E i \in 1..Len(s) :
    /\ IsWordOf(s, i, i + Len(w) - 1)
    /\ LowerText(SubSeq(s, i, i + Len(w) - 1)) = w

HasDenyWord(s) ==
  \E w \in {K_update, K_delete, K_drop, K_alter, K_truncate, K_grant,
            K_revoke, K_attach, K_detach, K_pragma} : HasWord(s, w)

\* s has nothing but white space.
IsBlank(s) == \A k \in 1..Len(s) : s[k] \in {" ", "\t", "\n"}

\* s without its leading white space.
Stripped(s) ==
  IF IsBlank(s) THEN <<>>
  ELSE LET first == CHOOSE k \in 1..Len(s) :
                      /\ s[k] \notin {" ", "\t", "\n"}
                      /\ IsBlank(SubSeq(s, 1, k - 1))
       IN  SubSeq(s, first, Len(s))

\* s begins with w, in any letter case, leading white space ignored.
BeginsWith(s, w) ==
  /\ Len(Stripped(s)) >= Len(w)
  /\ LowerText(SubSeq(Stripped(s), 1, Len(w))) = w

\* The last request carried a statement text on the read or write channel.
HasText(channel) == req.channel = channel /\ req.got = "text"

Answer(status, msg) == res.status = status /\ res.error = msg

\* ------------------------------------------------------------------------
\* The properties
\* ------------------------------------------------------------------------

\* C1: a statement text that holds a denylist keyword as a whole word, in
\* any letter case, is answered 403 "Forbidden statement." by handleGetSql
\* and by handlePostSql alike and never reaches the store, whatever it
\* begins with and whether or not it names patient.
C1_ForbiddenIsRefused ==
  \A channel \in {"GET", "POST"} :
    (HasText(channel) /\ HasDenyWord(req.sql)) =>
      /\ Answer(403, "Forbidden statement.")
      /\ handed = <<>>
      /\ store = before

\* A select on patient that smuggles DROP in upper case was refused.
C1_Witness ==
  /\ HasText("GET")
  /\ req.sql = T_SelectThenDrop
  /\ BeginsWith(req.sql, K_select)
  /\ Answer(403, "Forbidden statement.")

\* C2: every caller-supplied statement the store receives was approved for
\* its channel: it is the text of the request, holds no denylist keyword,
\* begins with select (read channel, through db.all) or insert (write
\* channel, through db.run) and names patient; a request answered as
\* Forbidden, WrongIntent or OutOfScope hands nothing to the store.
C2_OnlyApprovedReachesStore ==
  /\ \A k \in 1..Len(handed) :
       handed[k].from \in {"GET", "POST"} =>
         /\ HasText(handed[k].from)
         /\ handed[k].sql = req.sql
         /\ ~HasDenyWord(handed[k].sql)
         /\ HasWord(handed[k].sql, K_patient)
         /\ handed[k].from = "GET" =>
              handed[k].op = "all" /\ BeginsWith(handed[k].sql, K_select)
         /\ handed[k].from = "POST" =>
              handed[k].op = "run" /\ BeginsWith(handed[k].sql, K_insert)
  /\ res.error \in {"Forbidden statement.", "GET only allows SELECT.",
                    "POST only allows INSERT.",
                    "Query must reference 'patient'."} =>
       handed = <<>> /\ store = before

\* An approved insert reached the store and was carried out.
C2_Witness ==
  /\ HasText("POST")
  /\ Len(handed) = 1
  /\ res.status = 200
  /\ newKeys # {}

\* C3: no request takes a stored record away or changes it: every record
\* the request found is there, the same, after it.
C3_RecordsOnlyGrow == \A r \in before.rows : r \in store.rows

\* C4 as stated: a text on the read channel that does not begin with select
\* is answered 400 "GET only allows SELECT.".
C4_NonSelectIsWrongIntent ==
  (HasText("GET") /\ ~BeginsWith(req.sql, K_select)) =>
    Answer(400, "GET only allows SELECT.")

\* C4, amended: a text on the read channel that does not begin with select
\* is answered 400 "GET only allows SELECT." when it holds no denylist
\* keyword, and 403 "Forbidden statement." when it holds one; either way it
\* does not reach the store.
C4_NonSelectIsRefused ==
  (HasText("GET") /\ ~BeginsWith(req.sql, K_select)) =>
    /\ handed = <<>>
    /\ IF HasDenyWord(req.sql)
       THEN Answer(403, "Forbidden statement.")
       ELSE Answer(400, "GET only allows SELECT.")

\* An insert sent on the read channel was answered as WrongIntent.
C4_Witness ==
  /\ HasText("GET")
  /\ req.sql = T_InsertNone
  /\ Answer(400, "GET only allows SELECT.")

\* C5: for a write the store carried out, affectedRows is the number of
\* rows the store reports changed and insertId is there exactly when the
\* store assigned a key while carrying it out.
C5_InsertIdIffKeyAssigned ==
  (req.channel = "POST" /\ res.status = 200) =>
    /\ res.affectedRows = Some(store.changes)
    /\ res.insertId # Null <=> newKeys # {}

\* C6: a POST whose body is no structured object, or whose query is absent
\* or blank, is answered 400 with a message, the store not invoked.
C6_BadBodyIsClientError ==
  (/\ req.channel = "POST"
   /\ \/ req.body \in {"invalid", "null", "number", "array"}
      \/ req.body \in {"empty", "object"} /\ IsBlank(req.sql)) =>
    /\ res.status = 400
    /\ res.error # ""
    /\ handed = <<>>

\* C7: the server listens, and requests are handled, only once bootstrap has
\* resolved and the patient table is there; after a failed bootstrap the
\* server never starts: all it can do is exit.
C7_ListenOnlyAfterBootstrap ==
  /\ (phase = "listening" \/ req.channel # "NONE") =>
       bootResult = "resolved" /\ store.tables = 1
  /\ bootResult = "rejected" =>
       /\ phase \in {"booting", "exited"}
       /\ req.channel = "NONE"
       /\ phase = "booting" => (ENABLED exit /\ ~ENABLED start)

\* A read was served once bootstrap had resolved.
C7_Witness ==
  /\ phase = "listening"
  /\ req.channel = "GET"
  /\ res.status = 200
  /\ bootResult = "resolved"
  /\ store.tables = 1

\* The name and date of birth of each of rows, and those of the fixed
\* sample records.
SampleValues(rows) ==
  [k \in 1..Len(rows) |-> <<rows[k].name, rows[k].dateOfBirth>>]

C8_Sample ==
  << <<"Sara Brown", "1901-01-01 00:00:00">>,
     <<"John Smith", "1941-01-01 00:00:00">>,
     <<"Jack Ma", "1961-01-30 00:00:00">>,
     <<"Elon Musk", "1999-01-01 00:00:00">> >>

\* C8: a seed that succeeds runs its own statement, unclassified, adds the
\* four sample records and nothing else, and answers ok with inserted = 4;
\* and the read of all rows that follows a seed of an empty table returns
\* those four records.
C8_SeedAddsTheFour ==
  [][ /\ (req'.channel = "SEED" /\ res'.status = 200) =>
           /\ res'.ok
           /\ res'.inserted = Some(4)
           /\ handed' = <<Handed("run", SeedSql, "SEED")>>
           /\ store.rows \subseteq store'.rows
           /\ Tuple(SampleValues(SortedRows(store'.rows \ store.rows)))
                = C8_Sample
      /\ (/\ req.channel = "SEED" /\ res.status = 200 /\ before.rows = {}
          /\ req'.channel = "GET" /\ res'.status = 200) =>
           Tuple(SampleValues(res'.rows)) = C8_Sample
    ]_vars

\* A read of all rows followed the seed of an empty table.
C8_Witness ==
  /\ req.channel = "GET"
  /\ res.status = 200
  /\ Len(res.rows) = 4
  /\ res.rows[1].name = "Sara Brown"
  /\ store.seq = 4

\* C9: create-table-if-absent on a store that holds the table gives no
\* error and leaves the store as it is, and twice gives what once gives;
\* no store ever holds a second patient table, a bootstrap that found the
\* table resolved without touching it, and a read, which ensures the table
\* first, leaves the records as they were.
C9_CreateIsIdempotent ==
  /\ store.tables <= 1
  /\ LET once == ensureTableExists(store)
         twice == ensureTableExists(once.store)
     IN  /\ once.err = "" /\ twice.err = ""
         /\ once.store.tables = 1
         /\ twice.store = once.store
         /\ store.tables = 1 => once.store = store
  /\ (req.channel = "NONE" /\ before.tables = 1 /\ bootResult # "pending") =>
       store = before
  /\ (req.channel = "GET" /\ res.status = 200) => store = before

\* A read ensured the table on a store that held it, with records in it.
C9_Witness ==
  /\ req.channel = "GET"
  /\ res.status = 200
  /\ before.tables = 1
  /\ before.rows # {}
  /\ store = before

\* C10 as stated: empty or blank text is answered as WrongIntent, "GET only
\* allows SELECT." on the read channel and "POST only allows INSERT." on the
\* write channel.
C10_BlankIsWrongIntent ==
  /\ (/\ req.channel = "GET"
      /\ req.got = "missing" \/ (req.got = "text" /\ IsBlank(req.sql))) =>
       Answer(400, "GET only allows SELECT.")
  /\ (HasText("POST") /\ req.body = "object" /\ IsBlank(req.sql)) =>
       Answer(400, "POST only allows INSERT.")

\* C10, amended: on the read channel blank text of at least one character
\* is answered 400 "GET only allows SELECT." and no text at all 400
\* "Missing SQL in path."; on the write channel empty or blank text is
\* answered 400 "Missing 'query' field."; none reaches the store.
C10_BlankIsClientError ==
  /\ (HasText("GET") /\ IsBlank(req.sql)) =>
       Answer(400, "GET only allows SELECT.") /\ handed = <<>>
  /\ (req.channel = "GET" /\ req.got = "missing") =>
       Answer(400, "Missing SQL in path.") /\ handed = <<>>
  /\ (HasText("POST") /\ IsBlank(req.sql)) =>
       Answer(400, "Missing 'query' field.") /\ handed = <<>>

\* A query of one space was sent on the write channel.
C10_Witness ==
  /\ HasText("POST")
  /\ req.body = "object"
  /\ req.sql = T_Blank
  /\ Answer(400, "Missing 'query' field.")

====
